---- MODULE Spec2Model ----
(***************************************************************************)
(* The per-dataset analysis pipeline of dok.arealanalyse.process:          *)
(* Analysis.run (models/analysis.py) with the OGC API query and distance   *)
(* stages (models/ogc_api_analysis.py), the coverage quality evaluator     *)
(* (services/quality/coverage_quality.py) and the lookup of the quality    *)
(* indicators visible to a dataset (services/config.py).                   *)
(*                                                                         *)
(* Optional values (Python None) are sequences: <<>> is None, <<v>> is v.  *)
(* Areas are integers in thousandths of a square unit, percentages are     *)
(* integers in tenths of a percent.                                        *)
(***************************************************************************)
EXTENDS FiniteSets, Integers, Sequences, TLC

\* ------------------------------------------------------------- bounds
MaxLayers == 2          \* layers of a dataset configuration
MaxVals == 2            \* coverage values returned by the coverage source
MaxFeatures == 2        \* features of one query response
MaxQualityConfigs == 2  \* quality configurations in the configuration cache
MaxIndicators == 1      \* indicators of one quality configuration
MaxDistanceFeatures == 2 \* features of the response to the distance query
MaxFiles == 2           \* YAML files of the configuration directory
MaxEntries == 1         \* documents of one YAML file
MaxReaders == 2         \* tasks reading the configuration at the same time
MaxExpiries == 1        \* expiries of the cached configuration
MaxRegister == 2        \* entries of the guidance register's list
MaxGeolettCalls == 2    \* calls of get_geolett_data

\* sys.maxsize, as far as a 32-bit model integer can hold it
maxsize == 2147483647

SeqsUpTo(S, n) == UNION {[1..k -> S] : k \in 0..n}

RECURSIVE Concat(_)
Concat(ss) == IF ss = <<>> THEN <<>> ELSE Head(ss) \o Concat(Tail(ss))

Range(s) == {s[i] : i \in 1..Len(s)}

NoValue == <<>>
Some(v) == <<v>>

\* ------------------------------------------------------ configuration
NO_HIT_GREEN == "NO-HIT-GREEN"
NO_HIT_YELLOW == "NO-HIT-YELLOW"
HIT_YELLOW == "HIT-YELLOW"
HIT_RED == "HIT-RED"
TIMEOUT == "TIMEOUT"
ERROR == "ERROR"

\* the result statuses a layer is configured with
HitStatuses == {HIT_YELLOW, HIT_RED}
Layers == [result_status : HitStatuses]
\* the layers of the dataset configuration: consecutive layers are configured
\* with different statuses, so that a status tells which layer set it
LayerLists ==
    {[k \in 1..n |-> [result_status |-> IF k % 2 = 1 THEN HIT_YELLOW ELSE HIT_RED]] :
        n \in 1..MaxLayers}

dataset_id == "dataset 1"
DatasetIds == {dataset_id, "dataset 2"}
NoDatasetId == "None"

COVERAGE == "coverage"
OBJECT == "object"
\* only a coverage indicator names a WFS coverage source
Indicators == {i \in [type : {COVERAGE, OBJECT}, wfs : BOOLEAN] : i.wfs => i.type = COVERAGE}
QualityConfigs == [dataset_id : {NoDatasetId} \cup DatasetIds,
                   indicators : SeqsUpTo(Indicators, MaxIndicators)]
QualityConfigLists == SeqsUpTo(QualityConfigs, MaxQualityConfigs)

\* get_quality_indicator_configs: the indicators of every quality
\* configuration without a dataset id or with this dataset's id, in order
get_quality_indicator_configs(quality_configs, id) ==
    Concat([k \in 1..Len(quality_configs) |->
        IF quality_configs[k].dataset_id = NoDatasetId \/ quality_configs[k].dataset_id = id
        THEN quality_configs[k].indicators
        ELSE <<>>])

\* every list of indicators a configuration can make visible to the dataset
VisibleIndicatorLists ==
    {get_quality_indicator_configs(qcs, dataset_id) : qcs \in QualityConfigLists}

\* whether len(quality_indicators) == 0, for every such list
NoIndicatorVisible == {Len(quality_indicators) = 0 : quality_indicators \in VisibleIndicatorLists}

\* ------------------------------------------------- coverage quality
CoverageValues == {"ikkeKartlagt", "ikkeRelevant", "kartlagt"}
ValueLists == SeqsUpTo(CoverageValues, MaxVals)
\* hit_area_percent, in tenths of a percent
Percents == {0, 505, 1000}
\* get_codelist('fullstendighet_dekning'): the codelist, which has no
\* entry for 'ikkeRelevant'
Codelists == {<<[value |-> "ikkeKartlagt", label |-> "Ikke kartlagt"],
                [value |-> "kartlagt", label |-> "Kartlagt"]>>}
\* get_threshold_values(quality_indicator)
ThresholdLists == {<<>>, <<"ikkeKartlagt">>, <<"ikkeKartlagt", "ikkeRelevant">>}

\* _get_label_from_codelist: the label of the first entry with the value
_get_label_from_codelist(value, codelist) ==
    IF \E k \in 1..Len(codelist) : codelist[k].value = value
    THEN codelist[CHOOSE k \in 1..Len(codelist) :
                    /\ codelist[k].value = value
                    /\ \A j \in 1..(k - 1) : codelist[j].value # value].label
    ELSE "None"

\* _has_coverage, were 'ikkeKartlagt' to rule out coverage whatever else is there
_has_coverage_unmapped_rules(values) == ~("ikkeKartlagt" \in Range(values))

\* _has_coverage, were 'ikkeRelevant' a sentinel like 'ikkeKartlagt'
_has_coverage_both_sentinels(values) ==
    IF Range(values) \cap {"ikkeKartlagt", "ikkeRelevant"} # {}
    THEN \E k \in 1..Len(values) : values[k] \notin {"ikkeKartlagt", "ikkeRelevant"}
    ELSE TRUE

\* _has_coverage
_has_coverage(values) ==
    IF "ikkeKartlagt" \in Range(values)
    THEN \E k \in 1..Len(values) : values[k] # "ikkeKartlagt"
    ELSE TRUE

\* _get_warning_text, were the percentage put in front whenever it is not 0
_get_warning_text_unless_zero(quality_indicator, values, hit_area_percent, threshold_values) ==
    LET should_warn == \E k \in 1..Len(values) : values[k] \in Range(threshold_values)
    IN  IF should_warn
        THEN IF 0 < hit_area_percent
             THEN Some([text |-> "quality_warning_text", lower |-> TRUE, pct |-> Some(hit_area_percent)])
             ELSE Some([text |-> "quality_warning_text", lower |-> FALSE, pct |-> NoValue])
        ELSE NoValue

\* _get_warning_text: None, the indicator's warning text, or that text
\* lower-cased behind the percentage
_get_warning_text(quality_indicator, values, hit_area_percent, threshold_values) ==
    LET should_warn == \E k \in 1..Len(values) : values[k] \in Range(threshold_values)
    IN  IF should_warn
        THEN IF 0 < hit_area_percent /\ hit_area_percent < 1000
             THEN Some([text |-> "quality_warning_text", lower |-> TRUE, pct |-> Some(hit_area_percent)])
             ELSE Some([text |-> "quality_warning_text", lower |-> FALSE, pct |-> NoValue])
        ELSE NoValue

\* quality_indicator.quality_dimension_id
quality_dimension_id(quality_indicator) ==
    IF quality_indicator.type = COVERAGE THEN "fullstendighet_dekning" ELSE "egnethet_byggesak"

\* _get_coverage_quality_data after the values are fetched: (measurement, has_coverage)
_get_coverage_quality_data(quality_indicator, values, hit_area_percent, codelist, threshold_values) ==
    IF Len(values) = 0
    THEN [quality_data |-> NoValue, has_coverage |-> FALSE]
    ELSE [quality_data |-> Some(
            [id |-> quality_dimension_id(quality_indicator),
             values |-> [k \in 1..Len(values) |->
                 [value |-> IF values[k] \in {"ikkeKartlagt", "ikkeRelevant"} THEN "Nei" ELSE "Ja",
                  comment |-> _get_label_from_codelist(values[k], codelist)]],
             warning_text |-> _get_warning_text(quality_indicator, values, hit_area_percent, threshold_values)]),
          has_coverage |-> _has_coverage(values)]

\* get_coverage_quality: (measurements, warning, has_coverage)
get_coverage_quality(quality_indicator, values, hit_area_percent, codelist, threshold_values) ==
    LET r == _get_coverage_quality_data(quality_indicator, values, hit_area_percent, codelist, threshold_values)
    IN  IF r.quality_data = NoValue
        THEN [measurements |-> <<>>, warning |-> NoValue, has_coverage |-> FALSE]
        ELSE [measurements |-> [k \in 1..Len(r.quality_data[1].values) |->
                  [quality_dimension_id |-> r.quality_data[1].id,
                   value |-> r.quality_data[1].values[k].value,
                   comment |-> r.quality_data[1].values[k].comment]],
              warning |-> r.quality_data[1].warning_text,
              has_coverage |-> r.has_coverage]

\* -------------------------------------------------- geometry, queries
\* ogr.Geometry.GetArea of the input geometry or of its buffered copy
GetArea(geom) == 10004 + 2500 * geom.buffer
\* create_buffered_geometry
create_buffered_geometry(geom, distance) == [base |-> geom.base, buffer |-> geom.buffer + distance]
\* ogr.Geometry.Clone
Clone(geom) == geom
\* round(x, 2) of a non-negative area in thousandths (no model area ends in 5)
Round2(x) == ((x + 5) \div 10) * 10

\* the input geometry of the request
geometry == [base |-> "geometry", buffer |-> 0]
\* the buffer argument of the constructor: None, 0 or a distance
BufferArgs == {NoValue, Some(0), Some(5)}

\* a response geometry: none, a polygon overlapping the working geometry, a
\* polygon containing it, or a line crossing it
GeometryKinds == {"null", "polygon", "containing", "line"}
Features == [geometry : GeometryKinds]
\* query_ogc_api's parsed result: None or a feature collection
ApiResponses == {NoValue} \cup {Some(fs) : fs \in SeqsUpTo(Features, MaxFeatures)}
StatusCodes == {200, 408, 500}
\* get_geolett_data for a layer's geolett id: None or the register's entry
GeolettOutcomes(k) == {NoValue, Some([id |-> k, tittel |-> "geolett tittel"])}
\* a response feature of the distance query: no geometry, or one at the distance
DistanceFeatures == {NoValue, Some(0), Some(7)}
DistanceResponses == {NoValue} \cup {Some(fs) : fs \in SeqsUpTo(DistanceFeatures, MaxDistanceFeatures)}
\* get_kartkatalog_metadata: the metadata of the dataset
MetadataOutcomes == {Some("metadata")}

\* the labels of run_algorithm
Step(name) == [step |-> name, layer |-> 0]
IntersectLayer(k) == [step |-> "intersect layer", layer |-> k]

VARIABLES
    pc,                     \* position of run: the next stage
    error,                  \* the exception run raised, if any
    buffer, layers,
    include_guidance,       \* run's arguments, once run has read them
    include_quality_measurement,
    run_on_input_geometry, geometries, geolett, title, description,
    guidance_text, guidance_uri, possible_actions, quality_measurement,
    quality_warning, input_geometry_area, run_on_input_geometry_json,
    hit_area, distance_to_object, raster_result, cartography, data, themes,
    run_on_dataset, run_algorithm, result_status, has_coverage,
    coverage_indicators,    \* __run_coverage_analysis: the COVERAGE indicators found
    quality_indicator,      \* the indicator handed to get_coverage_quality
    coverage_values,        \* what the coverage source returned, once called
    layer_idx,              \* _run_queries: the layer the loop is at
    geolett_data,           \* _run_queries: its local geolett_data
    query_log,              \* the layer queries made: layer, status code, records
    distance_log,           \* the distance queries made: status code
    awaited,                \* what the coverage source or the distance query last
                            \* returned, until the next stage begins
    directory,              \* DOKANALYSE_CONFIG_DIR and the YAML files it names
    loaded,                 \* what a call of _load_config's body gave, once made
    cache,                  \* the TTLCache of _load_config: its one entry, if any
    readers,                \* the tasks calling _load_config: position and locals
    loads,                  \* the executions of _load_config's body so far
    stores,                 \* the loads whose value was stored, in the order stored
    expiries,               \* the expiries of the cache entry so far
    analyses,               \* the analyses run as concurrent tasks: their fields
    heap,                   \* the list objects the fields of these analyses refer to
    alone,                  \* each of these analyses as it is when run alone
    fetch_cache,            \* the alru_cache of _fetch_geolett_data: its entry, if any
    geolett_call,           \* the last call of get_geolett_data: id, register data, outcome
    geolett_calls           \* the calls of get_geolett_data so far

config == <<buffer, layers>>
arguments == <<include_guidance, include_quality_measurement>>
guidance == <<description, guidance_text, guidance_uri, possible_actions>>
default_data == <<title, themes, run_on_dataset>>
quality == <<quality_measurement, quality_warning>>
areas == <<input_geometry_area, hit_area>>
hits == <<data, geometries, raster_result, cartography>>
result == <<run_on_input_geometry, geolett, run_on_input_geometry_json, distance_to_object,
            run_algorithm, result_status, has_coverage, guidance, default_data, quality,
            areas, hits>>
coverage_locals == <<coverage_indicators, quality_indicator, coverage_values>>
query_locals == <<layer_idx, geolett_data, query_log>>
locals == <<coverage_locals, query_locals, distance_log, awaited>>
run == <<pc, error, config, arguments, result, locals>>
service == <<directory, loaded, cache, readers, loads, stores, expiries>>
\* what a run leaves alone
tasks == <<analyses, heap, alone>>
register == <<fetch_cache, geolett_call, geolett_calls>>
outside == <<service, tasks, register>>
vars == <<run, outside>>

\* self.buffer = buffer or 0
BufferOrZero(b) == IF b = NoValue \/ b = Some(0) THEN 0 ELSE b[1]

\* Analysis.__init__: the fields of a new analysis
Constructed(b, l) ==
    /\ buffer = BufferOrZero(b)
    /\ layers = l
    /\ run_on_input_geometry = NoValue
    /\ geometries = <<>>
    /\ geolett = NoValue
    /\ title = NoValue
    /\ description = NoValue
    /\ guidance_text = NoValue
    /\ guidance_uri = <<>>
    /\ possible_actions = <<>>
    /\ quality_measurement = <<>>
    /\ quality_warning = <<>>
    /\ input_geometry_area = NoValue
    /\ run_on_input_geometry_json = NoValue
    /\ hit_area = NoValue
    /\ distance_to_object = 0
    /\ raster_result = NoValue
    /\ cartography = NoValue
    /\ data = <<>>
    /\ themes = NoValue
    /\ run_on_dataset = NoValue
    /\ run_algorithm = <<>>
    /\ result_status = NO_HIT_GREEN
    /\ has_coverage = TRUE

\* no stage has run yet
NotStarted ==
    /\ error = "None"
    /\ include_guidance = NoValue
    /\ include_quality_measurement = NoValue
    /\ coverage_indicators = <<>>
    /\ quality_indicator = NoValue
    /\ coverage_values = NoValue
    /\ layer_idx = 0
    /\ geolett_data = NoValue
    /\ query_log = <<>>
    /\ distance_log = <<>>
    /\ awaited = NoValue

\* ---------------------------------------------- configuration service
\* a document of a YAML file: a mapping with its type and whether its model
\* validates, or a document that is not a mapping (an empty document, a list)
NotAMapping == "not a mapping"
Entries ==
    [type : {"dataset", "quality"}, valid : BOOLEAN]
        \cup {[type |-> "other", valid |-> TRUE], [type |-> NotAMapping, valid |-> FALSE]}
Files == SeqsUpTo(Entries, MaxEntries)
\* DOKANALYSE_CONFIG_DIR: not set, not a directory, or a directory of YAML files
Directories ==
    [kind : {"unset", "file"}, files : {<<>>}]
        \cup [kind : {"dir"}, files : SeqsUpTo(Files, MaxFiles)]

\* the k-th document of the f-th file, as yaml.safe_load_all gives it
Document(files, f, k) ==
    [type |-> files[f][k].type, valid |-> files[f][k].valid, at |-> <<f, k>>]

\* _create_dataset_config: the configuration, or None when the validation fails
_create_dataset_config(document) ==
    IF document.valid THEN Some([dataset_config |-> document.at]) ELSE NoValue

\* _create_quality_config
_create_quality_config(document) ==
    IF document.valid THEN Some([quality_config |-> document.at]) ELSE NoValue

Raised(exception) == [raised |-> exception, value |-> NoValue]
Returned(value) == [raised |-> "None", value |-> Some(value)]

\* the dataset_configs of _create_configs
DatasetConfigsOf(files) ==
    Concat([f \in 1..Len(files) |->
        Concat([k \in 1..Len(files[f]) |->
            IF Document(files, f, k).type = "dataset"
            THEN _create_dataset_config(Document(files, f, k))
            ELSE <<>>])])

\* the quality_configs of _create_configs
QualityConfigsOf(files) ==
    Concat([f \in 1..Len(files) |->
        Concat([k \in 1..Len(files[f]) |->
            IF Document(files, f, k).type = "quality"
            THEN _create_quality_config(Document(files, f, k))
            ELSE <<>>])])

\* whether result.get('type') fails on a document of the files
SomeNotAMapping(files) ==
    \E f \in 1..Len(files) : \E k \in 1..Len(files[f]) :
        Document(files, f, k).type = NotAMapping

\* _create_configs: result.get raises on a document that is not a mapping, and
\* nothing catches it
_create_configs(files) ==
    IF SomeNotAMapping(files) THEN Raised("AttributeError")
    ELSE IF Len(DatasetConfigsOf(files)) = 0
    THEN Raised("DokAnalysisException")
    ELSE Returned(<<DatasetConfigsOf(files), QualityConfigsOf(files)>>)

\* the body of _load_config
_load_config(dir) ==
    IF dir.kind = "unset" THEN Raised("DokAnalysisException")
    ELSE IF dir.kind # "dir" THEN Raised("DokAnalysisException")
    ELSE IF Len(dir.files) = 0 THEN Raised("DokAnalysisException")
    ELSE _create_configs(dir.files)

\* one execution of the body of _load_config on the directory
LoadConfig ==
    /\ loaded = NoValue
    /\ loaded' = Some(_load_config(directory))
    /\ UNCHANGED <<run, tasks, register, directory, cache, readers, loads, stores, expiries>>

\* the directories the readers of the cache are run on: not set, or a
\* directory of at most one file, whose documents are dataset and quality
\* configurations that validate
CachedDirectories ==
    {[kind |-> "unset", files |-> <<>>]}
        \cup [kind : {"dir"},
              files : SeqsUpTo(SeqsUpTo([type : {"dataset", "quality"}, valid : {TRUE}],
                                        MaxEntries + 1), 1)]

Readers == 1..MaxReaders
Reader == [pc |-> "call", v |-> NoValue, got |-> NoValue, raised |-> "None"]

\* cached(...): the wrapper looks the key up; a hit is returned at once
Lookup(r) ==
    /\ readers[r].pc = "call"
    /\ readers' = [readers EXCEPT ![r] =
            IF cache # NoValue
            THEN [@ EXCEPT !.pc = "returned", !.got = cache]
            ELSE [@ EXCEPT !.pc = "load"]]
    /\ UNCHANGED <<run, tasks, register, directory, loaded, cache, loads, stores, expiries>>

\* cached(...): after a miss the wrapper runs the body of _load_config, whose
\* exception leaves the wrapper; each list of the tuple is marked with the
\* execution that built it
RunLoad(r) ==
    /\ readers[r].pc = "load"
    /\ loads' = loads + 1
    /\ LET outcome == _load_config(directory)
       IN  readers' = [readers EXCEPT ![r] =
                IF outcome.value = NoValue
                THEN [@ EXCEPT !.pc = "raised", !.raised = outcome.raised]
                ELSE [@ EXCEPT !.pc = "store",
                               !.v = Some(<<[load |-> loads', configs |-> outcome.value[1][1]],
                                            [load |-> loads', configs |-> outcome.value[1][2]]>>)]]
    /\ UNCHANGED <<run, tasks, register, directory, loaded, cache, stores, expiries>>

\* StoreValue, were an entry already there kept
StoreValueIfAbsent(entry, v) == IF entry # NoValue THEN entry ELSE v

\* cache[k] = v
StoreValue(entry, v) == v

\* cached(...): the wrapper stores the value it loaded and returns it
Store(r) ==
    /\ readers[r].pc = "store"
    /\ cache' = StoreValue(cache, readers[r].v)
    /\ stores' = Append(stores, readers[r].v[1][1].load)
    /\ readers' = [readers EXCEPT ![r] = [@ EXCEPT !.pc = "returned", !.got = readers[r].v]]
    /\ UNCHANGED <<run, tasks, register, directory, loaded, loads, expiries>>

\* TTLCache: the entry expires
Expire ==
    /\ cache # NoValue
    /\ expiries < MaxExpiries
    /\ cache' = NoValue
    /\ expiries' = expiries + 1
    /\ UNCHANGED <<run, tasks, register, directory, loaded, readers, loads, stores>>

\* no analysis is run
NoRun == pc = "none" /\ Constructed(NoValue, <<>>) /\ NotStarted

\* no analyses are run as concurrent tasks
NoTasks == analyses = <<>> /\ heap = <<>> /\ alone = <<>>

\* the guidance register is not asked
NoRegister == fetch_cache = NoValue /\ geolett_call = NoValue /\ geolett_calls = 0

\* the configuration service is left alone
NoService ==
    /\ directory = [kind |-> "unset", files |-> <<>>]
    /\ loaded = NoValue
    /\ cache = NoValue
    /\ readers = <<>>
    /\ loads = 0
    /\ stores = <<>>
    /\ expiries = 0

\* a run of one analysis
Init ==
    /\ pc = "set_input_geometry"
    /\ \E b \in BufferArgs, l \in LayerLists : Constructed(b, l)
    /\ NotStarted
    /\ NoService
    /\ NoTasks
    /\ NoRegister

\* loads of every directory
InitLoad ==
    /\ NoRun
    /\ NoTasks
    /\ NoRegister
    /\ directory \in Directories
    /\ loaded = NoValue
    /\ cache = NoValue
    /\ readers = <<>>
    /\ loads = 0
    /\ stores = <<>>
    /\ expiries = 0

NextLoad == LoadConfig

LoadSpec == InitLoad /\ [][NextLoad]_vars

\* tasks reading the configuration through the cache, which starts empty
InitCache ==
    /\ NoRun
    /\ NoTasks
    /\ NoRegister
    /\ directory \in CachedDirectories
    /\ loaded = NoValue
    /\ cache = NoValue
    /\ readers = [r \in Readers |-> Reader]
    /\ loads = 0
    /\ stores = <<>>
    /\ expiries = 0

NextCache ==
    \/ \E r \in Readers : Lookup(r)
    \/ \E r \in Readers : RunLoad(r)
    \/ \E r \in Readers : Store(r)
    \/ Expire

CacheSpec == InitCache /\ [][NextCache]_vars

\* every task that has called goes on until it has returned or raised
FairCacheSpec ==
    /\ CacheSpec
    /\ \A r \in Readers : WF_vars(Lookup(r)) /\ WF_vars(RunLoad(r)) /\ WF_vars(Store(r))

\* add_run_algorithm
add_run_algorithm(trail, algorithm) == Append(trail, algorithm)

\* SetInputGeometryTrail, were 'add buffer' added for a buffer of 0 too
SetInputGeometryTrailAnyBuffer(trail, b) ==
    IF b >= 0
    THEN add_run_algorithm(add_run_algorithm(trail, Step("set input_geometry")), Step("add buffer"))
    ELSE add_run_algorithm(trail, Step("set input_geometry"))

\* Analysis.__set_input_geometry: the working geometry and its labels
SetInputGeometryTrail(trail, b) ==
    IF b > 0
    THEN add_run_algorithm(add_run_algorithm(trail, Step("set input_geometry")), Step("add buffer"))
    ELSE add_run_algorithm(trail, Step("set input_geometry"))

WorkingGeometry(geom, b) ==
    IF b > 0 THEN create_buffered_geometry(geom, b) ELSE Clone(geom)

SetInputGeometry ==
    /\ pc = "set_input_geometry"
    /\ run_algorithm' = SetInputGeometryTrail(run_algorithm, buffer)
    /\ run_on_input_geometry' = Some(WorkingGeometry(geometry, buffer))
    /\ pc' = "coverage_analysis"
    /\ UNCHANGED <<outside, error, config, arguments, locals, geolett, run_on_input_geometry_json,
                   distance_to_object, result_status, has_coverage, guidance,
                   default_data, quality, areas, hits>>

\* ---------------------------------------------------- coverage check
\* the COVERAGE-kind indicators among the dataset's quality indicators
CoverageIndicators(quality_indicators) ==
    SelectSeq(quality_indicators, LAMBDA indicator : indicator.type = COVERAGE)

\* CoverageDecision, were two coverage indicators let through
CoverageDecisionTwoAllowed(quality_indicators) ==
    IF Len(quality_indicators) = 0 THEN "return"
    ELSE IF Len(CoverageIndicators(quality_indicators)) = 0 THEN "return"
    ELSE IF Len(CoverageIndicators(quality_indicators)) > 2 THEN "raise"
    ELSE "check"

\* CoverageDecision, without the return when no indicator is of COVERAGE kind
CoverageDecisionNoCoverageReturn(quality_indicators) ==
    IF Len(quality_indicators) = 0 THEN "return"
    ELSE IF Len(CoverageIndicators(quality_indicators)) > 1 THEN "raise"
    ELSE "check"

\* __run_coverage_analysis, to its call of get_coverage_quality: whether it
\* returns at once, raises, or checks the coverage
CoverageDecision(quality_indicators) ==
    IF Len(quality_indicators) = 0 THEN "return"
    ELSE IF Len(CoverageIndicators(quality_indicators)) = 0 THEN "return"
    ELSE IF Len(CoverageIndicators(quality_indicators)) > 1 THEN "raise"
    ELSE "check"

\* the indicator __run_coverage_analysis hands to get_coverage_quality
CoverageArgument(quality_indicators) == quality_indicators[1]

RunCoverageAnalysis ==
    /\ pc = "coverage_analysis"
    /\ \E quality_indicators \in VisibleIndicatorLists :
        /\ coverage_indicators' = CoverageIndicators(quality_indicators)
        /\ IF CoverageDecision(quality_indicators) = "return"
           THEN /\ pc' = "branch"
                /\ UNCHANGED <<error, run_algorithm, quality_indicator>>
           ELSE IF CoverageDecision(quality_indicators) = "raise"
           THEN /\ pc' = "raised"
                /\ error' = "DokAnalysisException"
                /\ UNCHANGED <<run_algorithm, quality_indicator>>
           ELSE /\ run_algorithm' = add_run_algorithm(run_algorithm, Step("check coverage"))
                /\ quality_indicator' = Some(CoverageArgument(quality_indicators))
                /\ pc' = "coverage_quality"
                /\ UNCHANGED error
    /\ UNCHANGED <<outside, config, arguments, coverage_values, query_locals, distance_log, awaited,
                   run_on_input_geometry,
                   geolett, run_on_input_geometry_json, distance_to_object, result_status,
                   has_coverage, guidance, default_data, quality, areas, hits>>

\* get_coverage_quality returns to __run_coverage_analysis, which keeps its
\* result; the threshold values are those configured for the indicator
CoverageQualityReturns ==
    /\ pc = "coverage_quality"
    /\ \E values \in ValueLists, hit_area_percent \in Percents,
          codelist \in Codelists, threshold_values \in ThresholdLists :
        \* _get_values_from_web_service: without a WFS no source is asked
        /\ quality_indicator[1].wfs \/ (values = <<>> /\ hit_area_percent = 0)
        /\ coverage_values' = IF quality_indicator[1].wfs THEN Some(values) ELSE NoValue
        /\ awaited' = Some([values |-> values, hit_area_percent |-> hit_area_percent,
                            threshold_values |-> threshold_values])
        /\ LET r == get_coverage_quality(quality_indicator[1], values, hit_area_percent,
                                         codelist, threshold_values)
           IN  /\ quality_measurement' = quality_measurement \o r.measurements
               /\ has_coverage' = r.has_coverage
               /\ quality_warning' = IF r.warning # NoValue
                                     THEN Append(quality_warning, r.warning[1])
                                     ELSE quality_warning
    /\ pc' = "branch"
    /\ UNCHANGED <<outside, error, config, arguments, coverage_indicators, quality_indicator, query_locals,
                   distance_log, run_on_input_geometry, geolett, run_on_input_geometry_json,
                   distance_to_object, run_algorithm, result_status, guidance, default_data,
                   areas, hits>>

\* NoCoverageStatus, were the status left green
NoCoverageStatusGreen == NO_HIT_GREEN

\* run, line 74: without coverage the status is NO_HIT_YELLOW and nothing is queried
NoCoverageStatus == NO_HIT_YELLOW

\* AfterAreas, were the distance computed for NO_HIT_GREEN alone
AfterAreasGreenOnly(status) == IF status = NO_HIT_GREEN THEN "distance" ELSE "deliver"

\* where run goes after the query stage or the else branch
AfterAreas(status) ==
    IF status \in {NO_HIT_GREEN, NO_HIT_YELLOW} THEN "distance" ELSE "deliver"

NoCoverage ==
    /\ pc = "branch"
    /\ ~has_coverage
    /\ result_status' = NoCoverageStatus
    /\ pc' = AfterAreas(result_status')
    /\ awaited' = NoValue
    /\ UNCHANGED <<outside, error, config, arguments, coverage_locals, query_locals, distance_log,
                   run_on_input_geometry, geolett,
                   run_on_input_geometry_json, distance_to_object, run_algorithm,
                   has_coverage, guidance, default_data, quality, areas, hits>>

\* ------------------------------------------------------- query stage
\* what a call of get_geolett_data for a layer comes to: it returns None or
\* the register's entry, or raises when the fetch of the register had failed
GeolettAnswers(k) == {Returned(g) : g \in GeolettOutcomes(k)} \cup {Raised("TypeError")}

\* run, line 65: with coverage run_queries starts; _run_queries first
\* fetches the geolett data of the first layer
BeginRunQueries ==
    /\ pc = "branch"
    /\ has_coverage
    /\ \E answer \in GeolettAnswers(1) :
        IF answer.value = NoValue
        THEN /\ pc' = "raised"
             /\ error' = answer.raised
             /\ UNCHANGED <<geolett_data, layer_idx>>
        ELSE /\ geolett_data' = answer.value[1]
             /\ layer_idx' = 1
             /\ pc' = "query"
             /\ UNCHANGED error
    /\ awaited' = NoValue
    /\ UNCHANGED <<outside, config, arguments, coverage_locals, query_log, distance_log, result>>

\* FailureStatus, were 408 an error like the others
FailureStatusErrorOnly(status_code) == ERROR

\* the status a layer query's failure sets: 408 is a timeout, the rest errors
FailureStatus(status_code) == IF status_code = 408 THEN TIMEOUT ELSE ERROR

\* __parse_response: the mapped properties and the geometries of the features
parse_response(api_response, k) ==
    [properties |-> [i \in 1..Len(api_response) |-> [layer |-> k, feature |-> i]],
     geometries |-> [i \in 1..Len(api_response) |-> api_response[i].geometry]]

\* the number of records a response holds
Records(api_response) ==
    IF api_response = NoValue THEN 0 ELSE Len(parse_response(api_response[1], 0).properties)

\* whether the response of a layer ends the loop with a hit
IsHit(api_response) == api_response # NoValue /\ Records(api_response) > 0

\* LoopContinues, without the break after a hit
LoopContinuesPastHit(status_code, api_response, k) == status_code = 200 /\ k < Len(layers)

\* whether the loop of _run_queries goes on to the next layer
LoopContinues(status_code, api_response, k) ==
    status_code = 200 /\ ~IsHit(api_response) /\ k < Len(layers)

\* one turn of the loop of _run_queries: the query of the layer and what
\* follows from its answer; after the last turn self.geolett is set
QueryLayer ==
    /\ pc = "query"
    /\ \E status_code \in StatusCodes, api_response \in ApiResponses,
          answer \in GeolettAnswers(layer_idx) :
        /\ status_code # 200 => api_response = NoValue
        /\ ~IsHit(api_response) => answer = Returned(NoValue)
        /\ query_log' = Append(query_log, [layer |-> layer_idx, status_code |-> status_code,
                                           records |-> Records(api_response)])
        /\ IF status_code # 200
           THEN /\ result_status' = FailureStatus(status_code)
                /\ UNCHANGED <<run_algorithm, hits, geolett_data>>
           ELSE /\ run_algorithm' = add_run_algorithm(run_algorithm, IntersectLayer(layer_idx))
                /\ IF IsHit(api_response) /\ answer.value # NoValue
                   THEN /\ geolett_data' = answer.value[1]
                        /\ data' = parse_response(api_response[1], layer_idx).properties
                        /\ geometries' = parse_response(api_response[1], layer_idx).geometries
                        /\ raster_result' = Some(layer_idx)
                        /\ cartography' = Some(layer_idx)
                        /\ result_status' = layers[layer_idx].result_status
                   ELSE UNCHANGED <<result_status, hits, geolett_data>>
        /\ IF answer.value = NoValue
           THEN \* get_geolett_data raised after the hit: the exception leaves run
                /\ pc' = "raised"
                /\ error' = answer.raised
                /\ UNCHANGED <<geolett, layer_idx>>
           ELSE IF LoopContinues(status_code, api_response, layer_idx)
           THEN /\ layer_idx' = layer_idx + 1
                /\ pc' = "query"
                /\ UNCHANGED <<geolett, error>>
           ELSE /\ geolett' = geolett_data'
                /\ pc' = "queried"
                /\ UNCHANGED <<layer_idx, error>>
    /\ UNCHANGED <<outside, config, arguments, coverage_locals, distance_log, awaited, run_on_input_geometry,
                   run_on_input_geometry_json, distance_to_object, has_coverage, guidance,
                   default_data, quality, areas>>

\* set_default_data: the title is the geolett title, else the configured one
DefaultTitle(g) == IF g # NoValue THEN Some(g[1].tittel) ELSE Some("config title")

\* QueryFailed, were a timeout alone to end the run
QueryFailedTimeoutOnly(status) == status = TIMEOUT

\* run, line 68: whether the query stage ended the run
QueryFailed(status) == status = TIMEOUT \/ status = ERROR

\* run, lines 68-70: after TIMEOUT or ERROR only the default data is set
AbortRun ==
    /\ pc = "queried"
    /\ QueryFailed(result_status)
    /\ title' = DefaultTitle(geolett)
    /\ themes' = Some("config themes")
    /\ \E m \in MetadataOutcomes : run_on_dataset' = m
    /\ pc' = "done"
    /\ UNCHANGED <<outside, error, config, arguments, locals, run_on_input_geometry, geolett,
                   run_on_input_geometry_json, distance_to_object, run_algorithm,
                   result_status, has_coverage, guidance, quality, areas, hits>>

\* the area of the intersection of the working geometry with a result
\* geometry, when that intersection is a polygon or a multi-polygon
\* (a polygon containing the working geometry intersects it in all of it)
IntersectionArea(working, kind) ==
    IF kind = "polygon" THEN 1004
    ELSE IF kind = "containing" THEN GetArea(working)
    ELSE 0

\* SumAreas, were each intersection area rounded before it is added
RECURSIVE SumAreasRoundedEach(_, _)
SumAreasRoundedEach(working, geoms) ==
    IF geoms = <<>> THEN 0
    ELSE Round2(IntersectionArea(working, Head(geoms))) + SumAreasRoundedEach(working, Tail(geoms))

\* the hit_area accumulated over the result geometries, before it is rounded
RECURSIVE SumAreas(_, _)
SumAreas(working, geoms) ==
    IF geoms = <<>> THEN 0
    ELSE IntersectionArea(working, Head(geoms)) + SumAreas(working, Tail(geoms))

\* Analysis.__set_geometry_areas
SetGeometryAreas ==
    /\ pc = "queried"
    /\ ~QueryFailed(result_status)
    /\ input_geometry_area' = Some(Round2(GetArea(run_on_input_geometry[1])))
    /\ hit_area' = IF Len(geometries) = 0 THEN hit_area ELSE Some(Round2(SumAreas(run_on_input_geometry[1], geometries)))
    /\ pc' = AfterAreas(result_status)
    /\ UNCHANGED <<outside, error, config, arguments, locals, run_on_input_geometry, geolett,
                   run_on_input_geometry_json, distance_to_object, run_algorithm,
                   result_status, has_coverage, guidance, default_data, quality, hits>>

\* ---------------------------------------------------------- distance
\* the rounded distances to the features that have a geometry
RECURSIVE Distances(_)
Distances(features) ==
    IF features = <<>> THEN <<>>
    ELSE (IF Head(features) = NoValue THEN <<>> ELSE <<Head(features)[1]>>) \o Distances(Tail(features))

\* Smallest, without the sort
SmallestUnsorted(distances) == distances[1]

\* distances.sort(); distances[0]
Smallest(distances) == CHOOSE d \in Range(distances) : \A e \in Range(distances) : d <= e

\* the distance _set_distance_to_object reports for a response
DistanceToObject(response) ==
    IF response = NoValue THEN maxsize
    ELSE IF Len(Distances(response[1])) = 0 THEN maxsize
    ELSE Smallest(Distances(response[1]))

\* OgcApiAnalysis._set_distance_to_object: the query of the first layer within
\* the search radius, whose status code is dropped, and the distance
SetDistanceToObject ==
    /\ pc = "distance"
    /\ \E status_code \in StatusCodes, response \in DistanceResponses :
        /\ status_code # 200 => response = NoValue
        /\ distance_log' = Append(distance_log, status_code)
        /\ awaited' = Some([response |-> response])
        /\ distance_to_object' = DistanceToObject(response)
        /\ run_algorithm' = IF response = NoValue
                            THEN run_algorithm
                            ELSE add_run_algorithm(run_algorithm, Step("get distance"))
    /\ pc' = "deliver"
    /\ UNCHANGED <<outside, error, config, arguments, coverage_locals, query_locals, run_on_input_geometry,
                   geolett, run_on_input_geometry_json, result_status, has_coverage,
                   guidance, default_data, quality, areas, hits>>

\* ------------------------------------------------------ finalization
\* SetsDescription, were the descriptive fields set for every status
SetsDescriptionAlways(status) == TRUE

\* __set_guidance_data, line 162: whether description and guidance_text are set
SetsDescription(status) == status # NO_HIT_GREEN

\* run, lines 79-87: the last label, the caller's geometry, the default
\* data and, when asked for and there is geolett data, the guidance data;
\* include_guidance is drawn here, where run reads it
DeliverResult ==
    /\ pc = "deliver"
    /\ run_algorithm' = add_run_algorithm(run_algorithm, Step("deliver result"))
    /\ run_on_input_geometry_json' = Some(run_on_input_geometry[1])
    /\ title' = DefaultTitle(geolett)
    /\ themes' = Some("config themes")
    /\ \E m \in MetadataOutcomes : run_on_dataset' = m
    /\ \E asked \in BOOLEAN :
        /\ include_guidance' = Some(asked)
        /\ IF asked /\ geolett # NoValue
           THEN /\ IF SetsDescription(result_status)
                   THEN /\ description' = Some("forklarendeTekst")
                        /\ guidance_text' = Some("dialogtekst")
                   ELSE UNCHANGED <<description, guidance_text>>
                /\ guidance_uri' = guidance_uri \o <<[href |-> "href", title |-> "tittel"]>>
                /\ possible_actions' = possible_actions \o <<"tiltak">>
           ELSE UNCHANGED guidance
    /\ awaited' = NoValue
    /\ pc' = "quality_measurements"
    /\ UNCHANGED <<outside, error, config, include_quality_measurement, coverage_locals, query_locals,
                   distance_log, run_on_input_geometry,
                   geolett, distance_to_object, result_status, has_coverage, quality,
                   areas, hits>>

\* get_dataset_quality: (measurements, warnings)
DatasetQualityOutcomes ==
    {[qms |-> <<>>, warnings |-> <<>>],
     [qms |-> <<[quality_dimension_id |-> "egnethet_kommuneplan", value |-> "3", comment |-> "None"]>>,
      warnings |-> <<[text |-> "dataset warning", lower |-> FALSE, pct |-> NoValue]>>],
     [qms |-> <<[quality_dimension_id |-> "egnethet_annet", value |-> "1", comment |-> "None"],
                [quality_dimension_id |-> "egnethet_reguleringsplan", value |-> "4", comment |-> "None"]>>,
      warnings |-> <<>>]}
\* get_object_quality: (measurements, warnings) of the matched records
get_object_quality(records) ==
    IF Len(records) = 0
    THEN [qms |-> <<>>, warnings |-> <<>>]
    ELSE [qms |-> <<[quality_dimension_id |-> "stedfestingsnoyaktighet", value |-> "2", comment |-> "None"]>>,
          warnings |-> <<[text |-> "object warning", lower |-> FALSE, pct |-> NoValue]>>]

\* run, lines 89-90, and Analysis.__set_quality_measurements;
\* include_quality_measurement is drawn here, where run reads it
SetQualityMeasurements ==
    /\ pc = "quality_measurements"
    /\ \E asked \in BOOLEAN :
        /\ include_quality_measurement' = Some(asked)
        /\ IF asked
           THEN \E none_visible \in NoIndicatorVisible, d \in DatasetQualityOutcomes :
                    LET o == get_object_quality(data) IN
                    IF none_visible
                    THEN UNCHANGED quality
                    ELSE /\ quality_measurement' = quality_measurement \o d.qms \o o.qms
                         /\ quality_warning' = quality_warning \o d.warnings \o o.warnings
           ELSE UNCHANGED quality
    /\ pc' = "done"
    /\ UNCHANGED <<outside, error, config, include_guidance, locals, run_on_input_geometry, geolett,
                   run_on_input_geometry_json, distance_to_object, run_algorithm,
                   result_status, has_coverage, guidance, default_data, areas, hits>>

\* ----------------------------------------------------- serialization
_QMS_SORT_ORDER ==
    <<"fullstendighet_dekning", "stedfestingsnoyaktighet", "egnethet_reguleringsplan",
      "egnethet_kommuneplan", "egnethet_byggesak">>

\* __sort_quality_measurements, were the measurements of other dimensions
\* kept behind the ordered ones
__sort_quality_measurements_keeping_all(qms) ==
    Concat([k \in 1..Len(_QMS_SORT_ORDER) |->
        SelectSeq(qms, LAMBDA qm : qm.quality_dimension_id = _QMS_SORT_ORDER[k])])
    \o SelectSeq(qms, LAMBDA qm : qm.quality_dimension_id \notin Range(_QMS_SORT_ORDER))

\* Analysis.__sort_quality_measurements: for each id of the sort order, in
\* that order, the measurements of that dimension
__sort_quality_measurements(qms) ==
    Concat([k \in 1..Len(_QMS_SORT_ORDER) |->
        SelectSeq(qms, LAMBDA qm : qm.quality_dimension_id = _QMS_SORT_ORDER[k])])

\* QualityMeasurement.to_dict
QualityMeasurementToDict(qm) ==
    [qualityDimensionId |-> qm.quality_dimension_id, value |-> qm.value, comment |-> qm.comment]

\* Analysis.to_dict: the serialized result of the analysis as it stands
to_dict ==
    LET sorted_qms == __sort_quality_measurements(quality_measurement)
    IN  [title |-> title,
         runOnInputGeometry |-> run_on_input_geometry_json,
         buffer |-> buffer,
         runAlgorithm |-> run_algorithm,
         inputGeometryArea |-> input_geometry_area,
         hitArea |-> hit_area,
         resultStatus |-> result_status,
         distanceToObject |-> distance_to_object,
         rasterResult |-> raster_result,
         cartography |-> cartography,
         data |-> data,
         themes |-> themes,
         runOnDataset |-> run_on_dataset,
         description |-> description,
         guidanceText |-> guidance_text,
         guidanceUri |-> guidance_uri,
         possibleActions |-> possible_actions,
         qualityMeasurement |-> [k \in 1..Len(sorted_qms) |-> QualityMeasurementToDict(sorted_qms[k])],
         qualityWarning |-> quality_warning]

Next ==
    \/ SetInputGeometry
    \/ RunCoverageAnalysis
    \/ CoverageQualityReturns
    \/ NoCoverage
    \/ BeginRunQueries
    \/ QueryLayer
    \/ AbortRun
    \/ SetGeometryAreas
    \/ SetDistanceToObject
    \/ DeliverResult
    \/ SetQualityMeasurements

Spec == Init /\ [][Next]_vars

\* ------------------------------------------- analyses as concurrent tasks
\* the constructor arguments (buffer, layers) of the two analyses a caller
\* runs for one request
TwoAnalyses ==
    <<[buffer |-> NoValue, layers |-> <<[result_status |-> HIT_YELLOW]>>],
      [buffer |-> Some(5), layers |-> <<[result_status |-> HIT_RED],
                                        [result_status |-> HIT_YELLOW]>>]>>
Tasks == DOMAIN TwoAnalyses

\* the fields of an analysis that hold a list changed in place (append, extend)
ListFields ==
    {"run_algorithm", "quality_measurement", "quality_warning", "guidance_uri", "possible_actions"}

\* NewList, were the list an attribute of the class, one object for all instances
NewListOfClass(a, f) == <<0, f>>

\* Analysis.__init__: `self.f = []` makes a new list object for the instance
NewList(a, f) == <<a, f>>

\* Analysis.__init__: the fields of a new analysis and the locals of its run,
\* given what its list fields hold
NewAnalysis(b, l, lists) ==
    [pc |-> "set_input_geometry", error |-> "None",
     buffer |-> BufferOrZero(b), layers |-> l,
     run_on_input_geometry |-> NoValue, geometries |-> <<>>, geolett |-> NoValue,
     title |-> NoValue, description |-> NoValue, guidance_text |-> NoValue,
     guidance_uri |-> lists.guidance_uri, possible_actions |-> lists.possible_actions,
     quality_measurement |-> lists.quality_measurement,
     quality_warning |-> lists.quality_warning,
     input_geometry_area |-> NoValue, run_on_input_geometry_json |-> NoValue,
     hit_area |-> NoValue, distance_to_object |-> 0, raster_result |-> NoValue,
     cartography |-> NoValue, data |-> <<>>, themes |-> NoValue, run_on_dataset |-> NoValue,
     run_algorithm |-> lists.run_algorithm, result_status |-> NO_HIT_GREEN,
     has_coverage |-> TRUE,
     quality_indicator |-> NoValue, layer_idx |-> 0, geolett_data |-> NoValue,
     response |-> NoValue]

\* what the collaborators can answer a task that is suspended at S.pc, and the
\* arguments of run where run reads them
OutcomesAt(S) ==
    CASE S.pc = "set_input_geometry" ->
            [quality_indicators : {<<>>, <<[type |-> COVERAGE, wfs |-> TRUE]>>,
                                   <<[type |-> COVERAGE, wfs |-> TRUE], [type |-> COVERAGE, wfs |-> FALSE]>>}]
      [] S.pc = "coverage_quality" ->
            [values : {<<"kartlagt">>, <<"ikkeKartlagt">>}, hit_area_percent : {505},
             codelist : Codelists, threshold_values : {<<"ikkeKartlagt">>}]
      [] S.pc = "geolett" -> [geolett : GeolettAnswers(1)]
      [] S.pc = "query" ->
            {[status_code |-> 408, api_response |-> NoValue],
             [status_code |-> 200, api_response |-> Some(<<>>)],
             [status_code |-> 200, api_response |-> Some(<<[geometry |-> "polygon"]>>)]}
      [] S.pc = "hit_geolett" -> [geolett : GeolettAnswers(S.layer_idx)]
      [] S.pc = "cartography" -> {[url |-> Some(S.layer_idx)]}
      [] S.pc = "distance" ->
            {[status_code |-> 408, response |-> NoValue],
             [status_code |-> 200, response |-> Some(<<Some(7)>>)]}
      [] S.pc = "default_data" ->
            {o \in [metadata : MetadataOutcomes, include_guidance : BOOLEAN,
                    include_quality_measurement : BOOLEAN, none_visible : {FALSE}] :
                QueryFailed(S.result_status) => ~o.include_guidance /\ ~o.include_quality_measurement}
      [] S.pc = "quality_measurements" ->
            [dataset_quality : {d \in DatasetQualityOutcomes : Len(d.qms) = 1}]
      [] OTHER -> {}

\* set_default_data, to its await of get_kartkatalog_metadata
DefaultDataCalled(S) ==
    [S EXCEPT !.title = DefaultTitle(S.geolett),
              !.themes = Some("config themes"),
              !.pc = "default_data"]

\* run, lines 79-84: the last label, the caller's geometry, set_default_data
Deliver(S) ==
    DefaultDataCalled(
        [S EXCEPT !.run_algorithm = add_run_algorithm(@, Step("deliver result")),
                  !.run_on_input_geometry_json = Some(S.run_on_input_geometry[1])])

\* run, lines 76-77: the distance query is awaited, or the result delivered
DistanceOrDeliver(S) ==
    IF AfterAreas(S.result_status) = "distance" THEN [S EXCEPT !.pc = "distance"] ELSE Deliver(S)

\* the end of _run_queries and run, lines 68-72
AfterRunQueries(S) ==
    LET T == [S EXCEPT !.geolett = S.geolett_data]
    IN  IF QueryFailed(T.result_status)
        THEN DefaultDataCalled(T)
        ELSE DistanceOrDeliver(
                [T EXCEPT !.input_geometry_area = Some(Round2(GetArea(T.run_on_input_geometry[1]))),
                          !.hit_area = IF Len(T.geometries) = 0 THEN @
                                       ELSE Some(Round2(SumAreas(T.run_on_input_geometry[1],
                                                                 T.geometries)))])

\* run, line 65: with coverage run_queries starts and awaits the geolett data
\* of the first layer; without, the status is set and the distance awaited
AfterCoverage(S) ==
    IF S.has_coverage
    THEN [S EXCEPT !.pc = "geolett"]
    ELSE DistanceOrDeliver([S EXCEPT !.result_status = NoCoverageStatus])

\* HitStatus, were the status always that of the first layer
HitStatusOfFirstLayer(ls, k) == ls[1].result_status

\* _run_queries, line 49: the status a hit in the k-th layer sets
HitStatus(ls, k) == ls[k].result_status

\* what a task does from the suspension point S.pc, resumed with the outcome
\* o, to its next suspension point or its end
Stage(S, o) ==
    CASE S.pc = "set_input_geometry" ->
            LET T == [S EXCEPT !.run_algorithm = SetInputGeometryTrail(@, S.buffer),
                               !.run_on_input_geometry = Some(WorkingGeometry(geometry, S.buffer))]
                decision == CoverageDecision(o.quality_indicators)
            IN  IF decision = "return" THEN AfterCoverage(T)
                ELSE IF decision = "raise"
                THEN [T EXCEPT !.pc = "raised", !.error = "DokAnalysisException"]
                ELSE [T EXCEPT !.run_algorithm = add_run_algorithm(@, Step("check coverage")),
                               !.quality_indicator = Some(CoverageArgument(o.quality_indicators)),
                               !.pc = "coverage_quality"]
      [] S.pc = "coverage_quality" ->
            LET r == get_coverage_quality(S.quality_indicator[1], o.values, o.hit_area_percent,
                                          o.codelist, o.threshold_values)
            IN  AfterCoverage(
                    [S EXCEPT !.quality_measurement = @ \o r.measurements,
                              !.has_coverage = r.has_coverage,
                              !.quality_warning = IF r.warning # NoValue
                                                  THEN Append(@, r.warning[1]) ELSE @])
      [] S.pc = "geolett" ->
            IF o.geolett.value = NoValue
            THEN [S EXCEPT !.pc = "raised", !.error = o.geolett.raised]
            ELSE [S EXCEPT !.geolett_data = o.geolett.value[1], !.layer_idx = 1, !.pc = "query"]
      [] S.pc = "query" ->
            IF o.status_code # 200
            THEN AfterRunQueries([S EXCEPT !.result_status = FailureStatus(o.status_code)])
            ELSE LET T == [S EXCEPT !.run_algorithm = add_run_algorithm(@, IntersectLayer(S.layer_idx))]
                 IN  IF IsHit(o.api_response)
                     THEN [T EXCEPT !.response = Some(parse_response(o.api_response[1], S.layer_idx)),
                                    !.pc = "hit_geolett"]
                     ELSE IF S.layer_idx < Len(S.layers)
                     THEN [T EXCEPT !.layer_idx = @ + 1]
                     ELSE AfterRunQueries(T)
      [] S.pc = "hit_geolett" ->
            IF o.geolett.value = NoValue
            THEN [S EXCEPT !.pc = "raised", !.error = o.geolett.raised]
            ELSE
            [S EXCEPT !.geolett_data = o.geolett.value[1],
                      !.data = S.response[1].properties,
                      !.geometries = S.response[1].geometries,
                      !.raster_result = Some(S.layer_idx),
                      !.pc = "cartography"]
      [] S.pc = "cartography" ->
            AfterRunQueries([S EXCEPT !.cartography = o.url,
                                      !.result_status = HitStatus(S.layers, S.layer_idx)])
      [] S.pc = "distance" ->
            Deliver([S EXCEPT !.distance_to_object = DistanceToObject(o.response),
                              !.run_algorithm = IF o.response = NoValue THEN @
                                                ELSE add_run_algorithm(@, Step("get distance"))])
      [] S.pc = "default_data" ->
            LET T == [S EXCEPT !.run_on_dataset = o.metadata]
                U == IF o.include_guidance /\ T.geolett # NoValue
                     THEN [T EXCEPT !.description = IF SetsDescription(T.result_status)
                                                    THEN Some("forklarendeTekst") ELSE @,
                                    !.guidance_text = IF SetsDescription(T.result_status)
                                                      THEN Some("dialogtekst") ELSE @,
                                    !.guidance_uri = @ \o <<[href |-> "href", title |-> "tittel"]>>,
                                    !.possible_actions = @ \o <<"tiltak">>]
                     ELSE T
            IN  IF QueryFailed(T.result_status) THEN [T EXCEPT !.pc = "done"]
                ELSE IF o.include_quality_measurement /\ ~o.none_visible
                THEN [U EXCEPT !.pc = "quality_measurements"]
                ELSE [U EXCEPT !.pc = "done"]
      [] S.pc = "quality_measurements" ->
            LET d == o.dataset_quality
                q == get_object_quality(S.data)
            IN  [S EXCEPT !.quality_measurement = @ \o d.qms \o q.qms,
                          !.quality_warning = @ \o d.warnings \o q.warnings,
                          !.pc = "done"]

\* the analysis of a task, every list field read through its reference
Deref(a) ==
    [f \in DOMAIN analyses[a] |->
        IF f \in ListFields THEN heap[analyses[a][f]] ELSE analyses[a][f]]

\* the event loop resumes task a with the outcome it awaits; the task runs to
\* its next suspension point: a rebound field is written to the analysis, a
\* list changed in place to the object the field refers to
Resume(a) ==
    /\ \E o \in OutcomesAt(Deref(a)) :
        LET S == Stage(Deref(a), o)
        IN  /\ analyses' = [analyses EXCEPT ![a] =
                    [f \in DOMAIN S |-> IF f \in ListFields THEN analyses[a][f] ELSE S[f]]]
            /\ heap' = [id \in DOMAIN heap |->
                    IF \E f \in ListFields : analyses[a][f] = id
                    THEN S[CHOOSE f \in ListFields : analyses[a][f] = id]
                    ELSE heap[id]]
            /\ alone' = [alone EXCEPT ![a] = Stage(alone[a], o)]
    /\ UNCHANGED <<run, service, register>>

\* the caller constructs the two analyses and runs each as a task
InitConcurrent ==
    /\ NoRun
    /\ NoService
    /\ NoRegister
    /\ analyses = [a \in Tasks |->
            NewAnalysis(TwoAnalyses[a].buffer, TwoAnalyses[a].layers,
                        [f \in ListFields |-> NewList(a, f)])]
    /\ heap = [id \in {NewList(a, f) : a \in Tasks, f \in ListFields} |-> <<>>]
    /\ alone = [a \in Tasks |->
            NewAnalysis(TwoAnalyses[a].buffer, TwoAnalyses[a].layers,
                        [f \in ListFields |-> <<>>])]

NextConcurrent == \E a \in Tasks : Resume(a)

ConcurrentSpec == InitConcurrent /\ [][NextConcurrent]_vars

\* ---------------------------------------------------- guidance register
\* the ids get_geolett_data is called with: None or the geolett id of a layer
GeolettIds == {NoValue, Some("geolett 1"), Some("geolett 2")}
\* the entries of the register: two under the first id, none under the second
RegisterEntries ==
    {[id |-> "geolett 1", tittel |-> "tittel a"], [id |-> "geolett 1", tittel |-> "tittel b"],
     [id |-> "geolett 3", tittel |-> "tittel c"]}
\* what the request of _fetch_geolett_data comes to: a response of status 200
\* with the register's list, a response of another status, or an exception of
\* the transport
FetchOutcomes ==
    [kind : {"200"}, json : SeqsUpTo(RegisterEntries, MaxRegister)]
        \cup [kind : {"non-200", "exception"}, json : {<<>>}]

\* the body of _fetch_geolett_data: the list, or None
_fetch_geolett_data(outcome) ==
    IF outcome.kind = "200" THEN Some(outcome.json) ELSE NoValue

\* get_geolett_data from line 24, given what _fetch_geolett_data gave: filter
\* iterates over it, which raises TypeError when it is None
get_geolett_data(id, fetched) ==
    IF fetched = NoValue THEN Raised("TypeError")
    ELSE LET matching == SelectSeq(fetched[1], LAMBDA item : item.id = id[1])
         IN  Returned(IF Len(matching) > 0 THEN Some(matching[1]) ELSE NoValue)

\* a call of get_geolett_data with an id of the register (an id is a UUID, never
\* equal to a string of _LOCAL_GEOLETT_IDS): alru_cache gives the value it
\* holds, None included, and else keeps what the body returns
GetGeolettData ==
    /\ geolett_calls < MaxGeolettCalls
    /\ geolett_calls' = geolett_calls + 1
    /\ \E id \in GeolettIds \ {NoValue}, outcome \in FetchOutcomes :
        LET fetched == IF fetch_cache # NoValue THEN fetch_cache[1]
                       ELSE _fetch_geolett_data(outcome)
        IN  /\ fetch_cache # NoValue => outcome = [kind |-> "exception", json |-> <<>>]
            /\ fetch_cache' = Some(fetched)
            /\ geolett_call' = Some([id |-> id, cached |-> fetch_cache # NoValue,
                                     fetched |-> fetched,
                                     outcome |-> get_geolett_data(id, fetched)])
    /\ UNCHANGED <<run, service, tasks>>

\* get_geolett_data, lines 16-17: without an id nothing is fetched
GetGeolettDataOfNone ==
    /\ geolett_calls < MaxGeolettCalls
    /\ geolett_calls' = geolett_calls + 1
    /\ geolett_call' = Some([id |-> NoValue, cached |-> FALSE, fetched |-> NoValue,
                             outcome |-> Returned(NoValue)])
    /\ UNCHANGED <<run, service, tasks, fetch_cache>>

\* alru_cache(ttl=_CACHE_TTL): the entry expires
ExpireGeolett ==
    /\ fetch_cache # NoValue
    /\ fetch_cache' = NoValue
    /\ UNCHANGED <<run, service, tasks, geolett_call, geolett_calls>>

InitRegister ==
    /\ NoRun
    /\ NoService
    /\ NoTasks
    /\ NoRegister

NextRegister ==
    \/ GetGeolettData
    \/ GetGeolettDataOfNone
    \/ ExpireGeolett

RegisterSpec == InitRegister /\ [][NextRegister]_vars

\* =============================================================== claims
NoHitStatuses == {NO_HIT_GREEN, NO_HIT_YELLOW}
Count(trail, label) == Cardinality({k \in 1..Len(trail) : trail[k] = label})
\* every value of the list is 'ikkeKartlagt' (so is the empty list)
AllUnmapped(values) == \A k \in 1..Len(values) : values[k] = "ikkeKartlagt"
OnlyNotRelevant(values) == Len(values) > 0 /\ \A k \in 1..Len(values) : values[k] = "ikkeRelevant"
\* every layer answered 200 with zero matching records
AllLayersEmpty ==
    /\ Len(query_log) = Len(layers)
    /\ \A k \in 1..Len(query_log) : query_log[k].status_code = 200 /\ query_log[k].records = 0
AfterQueryStage == pc \in {"queried", "distance", "deliver", "quality_measurements", "done"}
AfterDistanceStage == pc \in {"deliver", "quality_measurements", "done"}

\* C1: when more than one COVERAGE-kind indicator is visible to the dataset,
\* run raises DokAnalysisException, and up to then neither the coverage
\* source nor the query capability has been called.
C1_TwoCoverageIndicatorsRaise ==
    Len(coverage_indicators) > 1 =>
        /\ pc = "raised"
        /\ error = "DokAnalysisException"
        /\ coverage_values = NoValue
        /\ query_log = <<>>
        /\ distance_log = <<>>

C1_Witness ==
    /\ pc = "raised"
    /\ Len(coverage_indicators) = 2
    /\ run_algorithm # <<>>

\* C2: for every list the coverage source returns, has_coverage is false
\* exactly when the list is empty or holds 'ikkeKartlagt' alone; the empty
\* list gives no measurement and no warning.
C2_HasCoverageIffMapped ==
    coverage_values # NoValue =>
        /\ has_coverage = ~AllUnmapped(coverage_values[1])
        /\ (coverage_values[1] = <<>> /\ pc # "done") =>
                quality_measurement = <<>> /\ quality_warning = <<>>

C2_Witness ==
    /\ coverage_values = Some(<<"ikkeKartlagt", "kartlagt">>)
    /\ has_coverage

\* C3 as claimed: with one coverage indicator and a coverage source that
\* returns 'ikkeRelevant' alone, the run ends NO_HIT_YELLOW, no layer was
\* queried and hit_area is unset.
C3_NotRelevantEndsYellow ==
    (pc = "done" /\ Len(coverage_indicators) = 1 /\ coverage_values # NoValue
        /\ OnlyNotRelevant(coverage_values[1])) =>
            /\ result_status = NO_HIT_YELLOW
            /\ query_log = <<>>
            /\ hit_area = NoValue

\* C3 as amended: with one coverage indicator, a source that returns
\* 'ikkeRelevant' alone leaves has_coverage true and the query stage runs,
\* its first layer queried; it is 'ikkeKartlagt' alone (or no value) that
\* ends the run NO_HIT_YELLOW with no layer queried and hit_area unset.
C3_NotRelevantIsCovered ==
    (pc = "done" /\ Len(coverage_indicators) = 1 /\ coverage_values # NoValue) =>
        /\ OnlyNotRelevant(coverage_values[1]) =>
            /\ has_coverage
            /\ query_log # <<>>
            /\ query_log[1].layer = 1
        /\ AllUnmapped(coverage_values[1]) =>
            /\ result_status = NO_HIT_YELLOW
            /\ query_log = <<>>
            /\ hit_area = NoValue

C3_Witness ==
    /\ pc = "done"
    /\ Len(coverage_indicators) = 1
    /\ coverage_values = Some(<<"ikkeRelevant">>)
    /\ query_log # <<>>
    /\ hit_area # NoValue

\* C4: once the coverage evaluator has answered has_coverage = false, no
\* layer is queried and no area computed: the status becomes NO_HIT_YELLOW
\* and run goes on to the distance computation and the finalization.
C4_NoCoverageSkipsQueries ==
    ~has_coverage =>
        /\ query_log = <<>>
        /\ layer_idx = 0
        /\ input_geometry_area = NoValue
        /\ hit_area = NoValue
        /\ pc \in {"branch", "distance", "deliver", "quality_measurements", "done"}
        /\ pc # "branch" => result_status = NO_HIT_YELLOW
        /\ AfterDistanceStage => Len(distance_log) = 1
        /\ pc \in {"quality_measurements", "done"} =>
                run_algorithm[Len(run_algorithm)] = Step("deliver result")

C4_Witness ==
    /\ ~has_coverage
    /\ pc = "done"
    /\ result_status = NO_HIT_YELLOW
    /\ Len(distance_log) = 1

\* C5: a layer query answered 408 sets TIMEOUT and one answered with another
\* code than 200 sets ERROR; it is the last query of the run, which then
\* computes no area and no distance, reads no guidance and no quality
\* measurement, and still sets title, themes and dataset metadata.
C5_FailedQueryEndsRun ==
    \A k \in 1..Len(query_log) :
        query_log[k].status_code # 200 =>
            /\ k = Len(query_log)
            /\ result_status = (IF query_log[k].status_code = 408 THEN TIMEOUT ELSE ERROR)
            /\ pc \in {"queried", "done"}
            /\ input_geometry_area = NoValue /\ hit_area = NoValue
            /\ distance_log = <<>> /\ distance_to_object = 0
            /\ include_guidance = NoValue /\ include_quality_measurement = NoValue
            /\ description = NoValue /\ guidance_text = NoValue
            /\ guidance_uri = <<>> /\ possible_actions = <<>>
            /\ Len(quality_measurement) = (IF coverage_values = NoValue THEN 0 ELSE Len(coverage_values[1]))
            /\ Count(run_algorithm, Step("deliver result")) = 0
            /\ pc = "done" =>
                /\ title = DefaultTitle(geolett)
                /\ themes # NoValue
                /\ run_on_dataset # NoValue

C5_Witness ==
    /\ pc = "done"
    /\ Len(query_log) = 2
    /\ query_log[2].status_code = 408
    /\ result_status = TIMEOUT
    /\ title # NoValue

\* C6: the distance evaluator is invoked, once, exactly when the status after
\* the coverage and query stages is NO_HIT_GREEN or NO_HIT_YELLOW; a run with
\* TIMEOUT, ERROR or a hit status never invokes it and distance_to_object
\* keeps its initial 0.
C6_DistanceOnlyWithoutHit ==
    /\ Len(distance_log) <= 1
    /\ (AfterDistanceStage \/ (pc = "done" /\ error = "None")) =>
            (Len(distance_log) = 1 <=> result_status \in NoHitStatuses)
    /\ result_status \notin NoHitStatuses =>
            distance_log = <<>> /\ distance_to_object = 0

C6_Witness ==
    /\ pc = "done"
    /\ result_status \in HitStatuses
    /\ distance_log = <<>>
    /\ input_geometry_area # NoValue

ExecutedStages ==
    <<Step("set input_geometry")>>
    \o (IF buffer > 0 THEN <<Step("add buffer")>> ELSE <<>>)
    \o (IF quality_indicator # NoValue THEN <<Step("check coverage")>> ELSE <<>>)
    \o [k \in 1..Len(query_log) |-> IntersectLayer(query_log[k].layer)]
    \o (IF distance_log # <<>> THEN <<Step("get distance")>> ELSE <<>>)
    \o (IF include_guidance # NoValue THEN <<Step("deliver result")>> ELSE <<>>)

\* C8: at the end of a run the audit trail holds one label for each stage
\* that executed, in execution order, and none for a stage that did not,
\* whatever the layer queries and the distance query answered.
C8_TrailReflectsStages ==
    pc = "done" => run_algorithm = ExecutedStages

\* C9: 'set input_geometry' is the first label; 'add buffer' is there, once
\* and right after it, exactly when buffer > 0, and then the working geometry
\* is the buffered one; otherwise it is a clone of the input geometry.
C9_BufferLabel ==
    IF pc = "set_input_geometry"
    THEN run_algorithm = <<>>
    ELSE /\ run_algorithm[1] = Step("set input_geometry")
         /\ Count(run_algorithm, Step("set input_geometry")) = 1
         /\ Count(run_algorithm, Step("add buffer")) = (IF buffer > 0 THEN 1 ELSE 0)
         /\ buffer > 0 =>
            /\ run_algorithm[2] = Step("add buffer")
            /\ run_on_input_geometry = Some([base |-> "geometry", buffer |-> buffer])
         /\ ~(buffer > 0) => run_on_input_geometry = Some(geometry)

C9_Witness ==
    /\ pc = "done"
    /\ buffer > 0
    /\ run_algorithm[2] = Step("add buffer")
    /\ Len(run_algorithm) > 3

SerializedOf(dicts, id) == SelectSeq(dicts, LAMBDA d : d.qualityDimensionId = id)
HeldOf(qms, id) ==
    LET of == SelectSeq(qms, LAMBDA qm : qm.quality_dimension_id = id)
    IN  [k \in 1..Len(of) |-> QualityMeasurementToDict(of[k])]
Priority(id) == CHOOSE k \in 1..Len(_QMS_SORT_ORDER) : _QMS_SORT_ORDER[k] = id

\* C11: whatever measurements the analysis holds, the serialized list holds
\* only measurements of the five dimensions of the priority list; for each of
\* these dimensions it holds the held measurements of that dimension, each
\* once and in the order they are held; and the dimensions follow each other
\* in priority order.
C11_SerializedMeasurementsOrdered ==
    LET out == to_dict.qualityMeasurement
    IN  /\ \A k \in 1..Len(out) : out[k].qualityDimensionId \in Range(_QMS_SORT_ORDER)
        /\ \A id \in Range(_QMS_SORT_ORDER) :
                SerializedOf(out, id) = HeldOf(quality_measurement, id)
        /\ \A i \in 1..Len(out) : \A j \in (i + 1)..Len(out) :
                Priority(out[i].qualityDimensionId) <= Priority(out[j].qualityDimensionId)

\* held: two coverage measurements, then one of an unlisted dimension, one of
\* the third dimension and one of the second
C11_Witness ==
    /\ pc = "done"
    /\ Len(quality_measurement) = 5
    /\ quality_measurement[1].quality_dimension_id = "fullstendighet_dekning"
    /\ quality_measurement[2].quality_dimension_id = "fullstendighet_dekning"
    /\ quality_measurement[1].value # quality_measurement[2].value
    /\ quality_measurement[3].quality_dimension_id = "egnethet_annet"
    /\ quality_measurement[5].quality_dimension_id = "stedfestingsnoyaktighet"
    /\ Len(to_dict.qualityMeasurement) = 4
    /\ to_dict.qualityMeasurement[3].qualityDimensionId = "stedfestingsnoyaktighet"

\* the warning texts a coverage check can add
BaseWarning == [text |-> "quality_warning_text", lower |-> FALSE, pct |-> NoValue]
PrefixedWarning(percent) == [text |-> "quality_warning_text", lower |-> TRUE, pct |-> Some(percent)]
\* the coverage source has just answered with at least one value
CoverageAnswered == pc = "branch" /\ awaited # NoValue /\ Len(awaited[1].values) > 0
SomeValueAtThreshold ==
    \E k \in 1..Len(awaited[1].values) :
        \E j \in 1..Len(awaited[1].threshold_values) :
            awaited[1].values[k] = awaited[1].threshold_values[j]

\* C12: when the coverage source answers with at least one value, there is no
\* warning exactly when none of the values is a threshold value of the
\* indicator; otherwise the warning is the indicator's text as it is when the
\* covered percentage is 0 or 100, and the lower-cased text behind the
\* percentage when the percentage lies strictly between 0 and 100.
C12_WarningFollowsThresholds ==
    CoverageAnswered =>
        /\ (quality_warning = <<>>) <=> ~SomeValueAtThreshold
        /\ SomeValueAtThreshold =>
            /\ awaited[1].hit_area_percent \in {0, 1000} => quality_warning = <<BaseWarning>>
            /\ (0 < awaited[1].hit_area_percent /\ awaited[1].hit_area_percent < 1000) =>
                    quality_warning = <<PrefixedWarning(awaited[1].hit_area_percent)>>

C12_Witness ==
    /\ CoverageAnswered
    /\ awaited[1].values = <<"kartlagt", "ikkeKartlagt">>
    /\ awaited[1].threshold_values = <<"ikkeKartlagt">>
    /\ awaited[1].hit_area_percent = 505
    /\ quality_warning = <<PrefixedWarning(505)>>

\* the distance query has just been answered
DistanceAnswered == pc = "deliver" /\ awaited # NoValue
\* the features of the answer that have a geometry
UsableFeatures ==
    IF awaited[1].response = NoValue THEN {}
    ELSE {k \in 1..Len(awaited[1].response[1]) : awaited[1].response[1][k] # NoValue}

\* C13: after the distance evaluator has run, distance_to_object is maxsize
\* exactly when the query gave no response or no feature with a geometry, and
\* otherwise the smallest of the rounded distances to the features with a
\* geometry; it is an integer in every state.
C13_DistanceIsMinimumOrSentinel ==
    /\ distance_to_object \in Int
    /\ DistanceAnswered =>
        /\ (distance_to_object = maxsize) <=> (UsableFeatures = {})
        /\ UsableFeatures # {} =>
            /\ \E k \in UsableFeatures : distance_to_object = awaited[1].response[1][k][1]
            /\ \A k \in UsableFeatures : distance_to_object <= awaited[1].response[1][k][1]

C13_Witness ==
    /\ DistanceAnswered
    /\ awaited[1].response = Some(<<Some(7), Some(0)>>)
    /\ distance_to_object = 0

\* how many of the result geometries are of a kind
CountKind(kind) == Cardinality({k \in 1..Len(geometries) : geometries[k] = kind})

\* C14: once the areas are computed, hit_area is unset when there is no
\* result geometry; otherwise it is the sum, rounded once, of the areas of the
\* polygon intersections, null geometries and line intersections adding
\* nothing; a single polygon containing the working geometry gives
\* hit_area = input_geometry_area. Before the areas are computed both are unset.
C14_HitAreaSumsPolygons ==
    IF input_geometry_area = NoValue
    THEN hit_area = NoValue
    ELSE /\ input_geometry_area = Some(Round2(GetArea(run_on_input_geometry[1])))
         /\ geometries = <<>> => hit_area = NoValue
         /\ geometries # <<>> =>
                hit_area = Some(Round2(1004 * CountKind("polygon")
                                + GetArea(run_on_input_geometry[1]) * CountKind("containing")))
         /\ (geometries # <<>> /\ \A k \in 1..Len(geometries) : geometries[k] \in {"null", "line"}) =>
                hit_area = Some(0)
         /\ geometries = <<"containing">> => hit_area = input_geometry_area
         /\ geometries = <<"polygon", "polygon">> => hit_area = Some(2010)

C14_Witness ==
    /\ pc = "done"
    /\ geometries = <<"polygon", "polygon">>
    /\ input_geometry_area = Some(10000)
    /\ hit_area = Some(2010)

\* C15: the serialized result of a run whose query stage ended with TIMEOUT
\* or ERROR carries that status and no enrichment: description and
\* guidanceText unset, guidanceUri, possibleActions, qualityMeasurement and
\* qualityWarning empty, whether or not a coverage check ran before the query.
C15_FailedRunHasNoEnrichment ==
    (pc = "done" /\ query_log # <<>> /\ query_log[Len(query_log)].status_code # 200) =>
        /\ to_dict.resultStatus = FailureStatus(query_log[Len(query_log)].status_code)
        /\ to_dict.description = NoValue
        /\ to_dict.guidanceText = NoValue
        /\ to_dict.guidanceUri = <<>>
        /\ to_dict.possibleActions = <<>>
        /\ to_dict.qualityMeasurement = <<>>
        /\ to_dict.qualityWarning = <<>>

NoGuidance ==
    /\ description = NoValue /\ guidance_text = NoValue
    /\ guidance_uri = <<>> /\ possible_actions = <<>>

\* C16: once run has finalized, with include_guidance set and guidance data
\* present, description and guidance_text are set exactly when the status is
\* not NO_HIT_GREEN, and the links and the possible actions are attached
\* whatever the status; with include_guidance false or without guidance data
\* the four fields are empty, as they are before the finalization.
C16_GuidanceFollowsStatus ==
    IF include_guidance = Some(TRUE) /\ geolett # NoValue
    THEN /\ (description # NoValue) <=> (result_status # NO_HIT_GREEN)
         /\ (guidance_text # NoValue) <=> (result_status # NO_HIT_GREEN)
         /\ guidance_uri # <<>>
         /\ possible_actions # <<>>
    ELSE NoGuidance

C16_Witness ==
    /\ pc = "done"
    /\ include_guidance = Some(TRUE)
    /\ geolett # NoValue
    /\ result_status = NO_HIT_GREEN
    /\ description = NoValue
    /\ guidance_uri # <<>>
    /\ possible_actions # <<>>

\* C20: whenever the coverage check runs, the indicator handed to
\* get_coverage_quality is the one COVERAGE-kind indicator of the dataset,
\* wherever it stands among the dataset's quality indicators.
C20_CoverageIndicatorIsChecked ==
    quality_indicator # NoValue =>
        /\ Len(coverage_indicators) = 1
        /\ quality_indicator[1].type = COVERAGE
        /\ quality_indicator[1] = coverage_indicators[1]

\* where the documents of a type that validate stand: (file, document)
ValidAt(files, type) ==
    {<<f, k>> \in (1..Len(files)) \X (1..MaxEntries + 1) :
        k <= Len(files[f]) /\ files[f][k].type = type /\ files[f][k].valid}
Before(a, b) == a[1] < b[1] \/ (a[1] = b[1] /\ a[2] < b[2])
\* a list of places holds each place of the set once, in the order of the files
HoldsInOrder(places, set) ==
    /\ Len(places) = Cardinality(set)
    /\ Range(places) = set
    /\ \A i \in 1..Len(places) : \A j \in (i + 1)..Len(places) : Before(places[i], places[j])
NoFile == directory.kind # "dir" \/ Len(directory.files) = 0

\* C19: a load raises DokAnalysisException exactly when there is no file or
\* no dataset configuration that validates; otherwise it returns every dataset
\* configuration and every quality configuration that validates, of all
\* files, in the order of the files, and nothing else: the documents that do
\* not validate are skipped, and quality configurations are not needed.
C19_LoadSkipsInvalidEntries ==
    loaded # NoValue =>
        /\ (loaded[1].raised = "DokAnalysisException") <=>
                (NoFile \/ ValidAt(directory.files, "dataset") = {})
        /\ ~(NoFile \/ ValidAt(directory.files, "dataset") = {}) =>
            /\ loaded[1].value # NoValue
            /\ LET dataset_configs == loaded[1].value[1][1]
                   quality_configs == loaded[1].value[1][2]
               IN  /\ HoldsInOrder([i \in 1..Len(dataset_configs) |-> dataset_configs[i].dataset_config],
                                   ValidAt(directory.files, "dataset"))
                   /\ HoldsInOrder([i \in 1..Len(quality_configs) |-> quality_configs[i].quality_config],
                                   ValidAt(directory.files, "quality"))

\* a (dataset configs, quality configs) tuple is whole and of one load
OfOneLoad(tuple) ==
    /\ tuple[1].load = tuple[2].load
    /\ tuple[1].load \in 1..loads
    /\ _load_config(directory).value = Some(<<tuple[1].configs, tuple[2].configs>>)
C18_Safe ==
    /\ \A r \in DOMAIN readers :
        /\ readers[r].pc = "returned" => readers[r].got # NoValue /\ OfOneLoad(readers[r].got[1])
        /\ readers[r].pc = "raised" =>
                /\ _load_config(directory).value = NoValue
                /\ readers[r].raised = _load_config(directory).raised
    /\ cache # NoValue =>
        /\ OfOneLoad(cache[1])
        /\ stores # <<>>
        /\ cache[1][1].load = stores[Len(stores)]

\* C18: every task that reads the configuration gets a whole (dataset
\* configs, quality configs) tuple built by one execution of the load, the
\* cached or its own; a task raises only when its own load raises; the cached
\* entry is the one stored last; and every task that calls returns or raises.
C18_ReadersGetOneLoad ==
    /\ []C18_Safe
    /\ \A r \in Readers : <>(readers[r].pc \in {"returned", "raised"})

\* two tasks missed and loaded; the one that loaded first stored last
C18_Witness ==
    /\ readers # <<>>
    /\ readers[1].pc = "returned" /\ readers[2].pc = "returned"
    /\ stores = <<2, 1>>
    /\ readers[1].got[1][1].load = 1
    /\ readers[2].got[1][1].load = 2
    /\ cache = readers[1].got

\* the part of an analysis to_dict serializes
ResultOf(S) ==
    [f \in {"title", "run_on_input_geometry_json", "buffer", "run_algorithm",
            "input_geometry_area", "hit_area", "result_status", "distance_to_object",
            "raster_result", "cartography", "data", "themes", "run_on_dataset",
            "description", "guidance_text", "guidance_uri", "possible_actions",
            "quality_measurement", "quality_warning"} |-> S[f]]

\* C17: when two analyses run concurrently as separate tasks, however their
\* stages interleave at the suspension points, no list object of one analysis
\* is a list object of the other, each task stands at every suspension point
\* where it stands when run alone with the same collaborator outcomes, and
\* each analysis ends with the result it has when run alone
C17_ConcurrentAnalysesAreIsolated ==
    /\ \A a \in Tasks, b \in Tasks, f \in ListFields, g \in ListFields :
            a # b => analyses[a][f] # analyses[b][g]
    /\ \A a \in Tasks :
        /\ Deref(a).pc = alone[a].pc
        /\ Deref(a).pc \in {"done", "raised"} => ResultOf(Deref(a)) = ResultOf(alone[a])

\* both analyses are suspended in the middle of their runs, at different
\* stages, each having appended to its trail and the first to its measurements
C17_Witness ==
    /\ analyses[1].pc = "query"
    /\ analyses[2].pc = "coverage_quality"
    /\ Len(Deref(1).quality_measurement) > 0
    /\ Len(Deref(2).run_algorithm) = 3

\* C21: a status 408 answered to any query of the run, a layer query of the
\* query stage or the search query of the distance stage, makes the result
\* status TIMEOUT.
C21_TimeoutAtAnyQueryIsTimeout ==
    /\ \A i \in 1..Len(query_log) : query_log[i].status_code = 408 => result_status = TIMEOUT
    /\ \A i \in 1..Len(distance_log) : distance_log[i] = 408 => result_status = TIMEOUT

\* C22: whatever the id and whatever the fetch of the register comes to (the
\* list with or without an entry of the id, another status, an exception, a
\* failed fetch held by the cache), get_geolett_data does not raise: it
\* returns the first entry of the id, or None when there is none.
C22_GeolettDataNeverRaises ==
    geolett_call # NoValue =>
        LET call == geolett_call[1]
            entries == IF call.id = NoValue \/ call.fetched = NoValue THEN <<>>
                       ELSE SelectSeq(call.fetched[1], LAMBDA item : item.id = call.id[1])
        IN  /\ call.outcome.raised = "None"
            /\ call.outcome.value # NoValue
            /\ call.outcome.value[1] = IF Len(entries) > 0 THEN Some(entries[1]) ELSE NoValue

\* an analysis run as a task awaits the cartography URL of the layer that hit
AwaitsCartography(a) == analyses[a].pc = "cartography"
\* the fields a hit sets are as the constructor left them
NoHitFields(a) ==
    /\ analyses[a].data = <<>>
    /\ analyses[a].geometries = <<>>
    /\ analyses[a].raster_result = NoValue
    /\ analyses[a].cartography = NoValue
\* the layer that supplied the matched records
SupplyingLayer(a) == analyses[a].data[1].layer

\* C23 as stated: in every state of a run the matched records, the result
\* geometries, the raster and the cartography reference are set only when a
\* layer hit: with TIMEOUT, ERROR, NO_HIT_GREEN or NO_HIT_YELLOW they are as
\* constructed, and whenever there are matched records the status is the
\* configured status of the layer that supplied them.
C23_HitFieldsOnlyWithHitStatus ==
    \A a \in DOMAIN analyses :
        /\ analyses[a].result_status \in {TIMEOUT, ERROR, NO_HIT_GREEN, NO_HIT_YELLOW} => NoHitFields(a)
        /\ analyses[a].data # <<>> =>
                analyses[a].result_status = analyses[a].layers[SupplyingLayer(a)].result_status

\* C23 as amended: the same in every state of a run but the one in which
\* _run_queries, after a hit, awaits the cartography URL: there the records,
\* the geometries and the raster reference of the layer are set already,
\* while the cartography reference is unset and the status is still
\* NO_HIT_GREEN; once the URL is there the status is that of the layer.
C23_HitFieldsOnlyWithHit ==
    \A a \in DOMAIN analyses :
        /\ ~AwaitsCartography(a) =>
            /\ analyses[a].result_status \in {TIMEOUT, ERROR, NO_HIT_GREEN, NO_HIT_YELLOW} =>
                    NoHitFields(a)
            /\ analyses[a].data # <<>> =>
                /\ analyses[a].result_status =
                        analyses[a].layers[SupplyingLayer(a)].result_status
                /\ analyses[a].raster_result = Some(SupplyingLayer(a))
                /\ analyses[a].cartography = Some(SupplyingLayer(a))
                /\ Len(analyses[a].geometries) = Len(analyses[a].data)
        /\ AwaitsCartography(a) =>
            /\ analyses[a].data # <<>>
            /\ analyses[a].raster_result = Some(SupplyingLayer(a))
            /\ analyses[a].cartography = NoValue
            /\ analyses[a].result_status = NO_HIT_GREEN

\* the second layer of an analysis hit after the first did not, the run is
\* over and the status is the second layer's
C23_Witness ==
    \E a \in DOMAIN analyses :
        /\ analyses[a].pc = "done"
        /\ Len(analyses[a].layers) = 2
        /\ analyses[a].data # <<>>
        /\ SupplyingLayer(a) = 2
        /\ analyses[a].result_status = HIT_YELLOW

\* C24: the label 'deliver result' stands at most once in run_algorithm and
\* no label follows it; when run has returned it is there exactly when the
\* status is neither TIMEOUT nor ERROR, and input_geometry_area is set
\* exactly when the query stage ran and ended without TIMEOUT or ERROR.
C24_DeliverResultIsLast ==
    /\ Count(run_algorithm, Step("deliver result")) <= 1
    /\ Count(run_algorithm, Step("deliver result")) = 1 =>
            run_algorithm[Len(run_algorithm)] = Step("deliver result")
    /\ pc = "done" =>
        /\ Count(run_algorithm, Step("deliver result")) = 1 <=>
                result_status \notin {TIMEOUT, ERROR}
        /\ input_geometry_area # NoValue <=>
                (query_log # <<>> /\ result_status \notin {TIMEOUT, ERROR})

\* a run without coverage has returned: 'deliver result' follows 'get
\* distance' as the last label, and input_geometry_area is unset
C24_Witness ==
    /\ pc = "done"
    /\ ~has_coverage
    /\ query_log = <<>>
    /\ Len(run_algorithm) >= 2
    /\ run_algorithm[Len(run_algorithm)] = Step("deliver result")
    /\ run_algorithm[Len(run_algorithm) - 1] = Step("get distance")
    /\ input_geometry_area = NoValue

====
